---- MODULE Spec2Model ----
(***************************************************************************)
(* Quiz-chain solver: the window-managed session of main.py                *)
(* (solve_quiz_url with QuestionManager) and the single-chain background   *)
(* worker of receive_request.py (process_request).  One behaviour runs one *)
(* of the two programs; prog says which.  Time is in seconds.              *)
(* Further specifications run a part alone: next_unsolved (SpecNU), the    *)
(* two endpoints (SpecDoor), two sessions downloading into the shared      *)
(* directory (SpecDisk), and the two searches for the submit url           *)
(* (SpecFind).  SpecLive is Spec with fairness.                            *)
(***************************************************************************)
EXTENDS Integers, Sequences, FiniteSets, TLC

VARIABLES
    prog,             \* "main" (solve_quiz_url), "receive" (process_request), or the
                      \* name of the function that runs alone
    now,              \* the clock read by time.time() / loop.time()
    pc,               \* position of the running session
    start_url,        \* the url of the accepted request
    global_deadline,  \* main.py: global_deadline
    questions,        \* main.py: manager.questions, in append order
    q,                \* main.py: q, an index into questions, 0 for None
    url,              \* the challenge url of the current iteration
    submit_url,       \* the submit endpoint found on the page
    h,                \* main.py: position in HANDLERS of the handler to run next
    ran,              \* main.py: the handlers called in the latest loop over HANDLERS
                      \* and what came of each, until the next turn begins
    answer,           \* the answer of the current iteration
    results,          \* main.py: results
    browser,          \* main.py: the playwright browser
    overall_deadline, \* receive_request.py: overall_deadline
    attempt,          \* receive_request.py: attempt of call_aipipe_for_answer
    last_result,      \* receive_request.py: last_result
    net,              \* the network operation initiated by the latest step, if any
    posts,            \* per window of questions (per challenge in process_request), how
                      \* each POST issued for it came out, in the order they were issued
    data,             \* solve_api, receive_request: the request
    secret_key,       \* EXPECTED_SECRET of main.py, SECRET_KEY of receive_request.py
    response,         \* the status code of the response, 0 before there is one
    tasks,            \* the calls of the engine made for the request
    files,            \* the files of the directory /tmp/llmquiz, by name
    sess,             \* concurrent sessions, each in download_and_parse_handler
    html              \* the markup given to the search for the submit url

vars == <<prog, now, pc, start_url, global_deadline, questions, q, url, submit_url, h,
          ran, answer, results, browser, overall_deadline, attempt, last_result, net, posts,
          data, secret_key, response, tasks, files, sess, html>>

\* the state of the endpoints
door == <<data, secret_key, response, tasks>>

\* the download directory and the sessions that use it together
disk == <<files, sess>>

----------------------------------------------------------------------------
(* Bounds of the model *)

\* the clock advances in steps of Tick seconds until it has reached MaxTime,
\* which is past every deadline of a session
Tick == 60
MaxTime == 180
\* the judge supplies follow-on urls while fewer than MaxQuestions windows exist
MaxQuestions == 2
\* the judge answers at most MaxResults submissions of a session; a submission
\* after those fails in transport
MaxResults == 1
\* next_unsolved alone is applied to lists of at most MaxWindows windows
MaxWindows == 3
\* a downloaded document arrives in MaxChunks chunks
MaxChunks == 2
\* the markup searched for a submit url has at most MaxItems forms, urls and
\* JSON fields
MaxItems == 2

(* Program constants *)

MAX_GLOBAL_SECONDS == 170
WINDOW_SECONDS == 180
OVERALL_SECONDS == 150
RETRIES == 2

----------------------------------------------------------------------------
(* Values *)

None == "None"
NoUrl == ""
URLS == {"http://quiz/a", "http://quiz/b"}
StartUrls == {"http://quiz/a", "ftp://quiz"}
EMAIL == "e@x"
SECRET == "s"

\* data.get(k) of a key the body lacks
Absent == "absent"

\* a request body: no JSON, a JSON value that is no object, or a JSON object
Request(b, u, e, sec) == [body |-> b, url |-> u, email |-> e, secret |-> sec]

NoData == Request("none", Absent, Absent, Absent)

\* the body of a request that passed the endpoint
Accepted(u) == Request("json_object", u, EMAIL, SECRET)

\* no file is in the directory and no session downloads
NoDisk == files = <<>> /\ sess = <<>>

\* what the latest step put on the network
NoNet == [kind |-> "none", q |-> 0, url |-> NoUrl, at |-> 0]

NetOp(kind, i, u, t) == [kind |-> kind, q |-> i, url |-> u, at |-> t]

\* bodies a judge may answer a submission with: plain text, a JSON value that is
\* no object, or a JSON object; correct is TRUE when the object's "correct" is
\* the JSON value true, url is NoUrl when the object has no truthy "url"
JudgeBodies ==
    {[json |-> FALSE, dict |-> FALSE, correct |-> FALSE, url |-> NoUrl],
     [json |-> TRUE, dict |-> FALSE, correct |-> FALSE, url |-> NoUrl]}
    \cup [json : {TRUE}, dict : {TRUE}, correct : BOOLEAN, url : URLS \cup {NoUrl}]

\* main.py post_answer: resp.json(), or {"text": resp.text} when that raises
post_answer(body) ==
    IF body.json
    THEN [dict |-> body.dict, correct |-> body.correct, url |-> body.url, text |-> FALSE]
    ELSE [dict |-> TRUE, correct |-> FALSE, url |-> NoUrl, text |-> TRUE]

----------------------------------------------------------------------------
(* QuestionManager *)

\* QuestionManager.add: a window opened at time t
NewQuestion(u, t) ==
    [url |-> u, start |-> t, deadline |-> t + WINDOW_SECONDS, solved |-> FALSE,
     answer |-> None, confidence |-> 0]

add(qs, u, t) == Append(qs, NewQuestion(u, t))

\* Active without the test of solved
Active_KeepsSolved(qs, t) ==
    SelectSeq([i \in 1..Len(qs) |-> i], LAMBDA i : t < qs[i].deadline)

\* line 249: the indices of the windows that are unsolved and not expired at t,
\* in list order
Active(qs, t) ==
    SelectSeq([i \in 1..Len(qs) |-> i], LAMBDA i : ~qs[i].solved /\ t < qs[i].deadline)

\* list.sort(key=deadline): a stable sort, here by insertion
RECURSIVE InsertByDeadline(_, _, _)
InsertByDeadline(qs, s, i) ==
    IF s = <<>> THEN <<i>>
    ELSE IF qs[i].deadline < qs[Head(s)].deadline THEN <<i>> \o s
    ELSE <<Head(s)>> \o InsertByDeadline(qs, Tail(s), i)

\* SortByDeadline with the sort left out
SortByDeadline_Omitted(qs, s) == s

RECURSIVE SortByDeadline(_, _)
SortByDeadline(qs, s) ==
    IF s = <<>> THEN <<>>
    ELSE InsertByDeadline(qs, SortByDeadline(qs, SubSeq(s, 1, Len(s) - 1)), s[Len(s)])

\* QuestionManager.next_unsolved at time t: an index of qs, 0 for None
next_unsolved(qs, t) ==
    LET active == Active(qs, t)
    IN IF active = <<>> THEN 0 ELSE Head(SortByDeadline(qs, active))

MarkSolved(qs, i) == [qs EXCEPT ![i].solved = TRUE]

----------------------------------------------------------------------------
(* main.py: the handler chain *)

HANDLERS ==
    <<"base64_json_handler", "html_table_handler", "download_and_parse_handler",
      "simple_regex_number">>

\* what a call of the handler at position i can come to: "none" (returns None),
\* "value" (returns a result with an answer), "null" (returns a result whose
\* answer is None), "raise" (an exception leaves the handler)
HandlerOutcomes(i) ==
    CASE i = 1 -> {"none", "value", "null"}
      [] i = 2 -> {"none", "value", "raise"}
      [] i = 3 -> {"none", "value", "raise"}
      [] OTHER -> {"none", "value"}

\* whether the call issues a download: only download_and_parse_handler does; it
\* has no result without one, and what it raises (lines 179-180) comes before any
Downloads(i, o) ==
    IF i # 3 THEN {FALSE}
    ELSE IF o = "value" THEN {TRUE}
    ELSE IF o = "raise" THEN {FALSE}
    ELSE BOOLEAN

\* ChainStops without the break of line 308
ChainStops_NoBreak(o) == FALSE

\* the loop over HANDLERS stops at a handler whose call returns a result
ChainStops(o) == o \in {"value", "null"}

\* AnswerOf without telling an answer of None from another
AnswerOf_NullAsAnswer(i, o) == IF o \in {"value", "null"} THEN "answer" ELSE None

\* out["answer"] of the handler at position i; which handler gave the answer is
\* kept in ran, the answers themselves are not told apart
AnswerOf(i, o) == IF o = "value" THEN "answer" ELSE None

\* a call of the handler at position i that came to o
Called(i, o) == [handler |-> HANDLERS[i], out |-> o]

----------------------------------------------------------------------------
(* main.py: solve_quiz_url *)

Payload(u, a) == [email |-> EMAIL, secret |-> SECRET, url |-> u, answer |-> a]

\* how a POST came out: "pending" until it returns, "transport_error" when it
\* raised, else the kind of the judge's body
BodyClass(body) ==
    IF ~body.json THEN "text"
    ELSE IF ~body.dict THEN "other"
    ELSE IF body.correct /\ body.url # NoUrl THEN "correct_url"
    ELSE IF body.correct THEN "correct"
    ELSE IF body.url # NoUrl THEN "url"
    ELSE "neither"

Issued(ps, i) == [ps EXCEPT ![i] = Append(@, "pending")]

Returned(ps, i, how) == [ps EXCEPT ![i] = [@ EXCEPT ![Len(@)] = how]]

\* SolvedByResponse marking the window on any JSON object
SolvedByResponse_AnyObject(resp) == resp.dict

\* lines 331-333: the window is marked solved on correct == true
SolvedByResponse(resp) == resp.dict /\ resp.correct

\* AddsWindow as an else branch of the test of correct
AddsWindow_UnlessCorrect(resp, u) == resp.dict /\ resp.url # NoUrl /\ ~resp.correct

\* lines 335-337: a follow-on window is added for a truthy url in the response
AddsWindow(resp, u) == resp.dict /\ resp.url # NoUrl

\* the while condition of line 273
SessionOpen(t, deadline) == t < deadline

\* Expired with > for >=
Expired_Late(t, w) == t > w.deadline

\* the expiry test of line 279
Expired(t, w) == t >= w.deadline

RUnchanged == UNCHANGED <<overall_deadline, attempt, last_result>>

Fixed == UNCHANGED <<prog, start_url, global_deadline, door, disk, html>>

\* q, url, submit_url, answer and the handler position are locals of one turn of
\* the while loop: each is assigned before it is read in the next turn, so the
\* turn's end leaves them without a value
EndTurn ==
    /\ pc' = "while"
    /\ q' = 0
    /\ url' = NoUrl
    /\ submit_url' = None
    /\ h' = 1
    /\ ran' = <<>>
    /\ answer' = None

\* the session is over: the locals are gone
EndSession(to) ==
    /\ pc' = to
    /\ q' = 0
    /\ url' = NoUrl
    /\ submit_url' = None
    /\ h' = 1
    /\ ran' = <<>>
    /\ answer' = None

Running == pc \notin {"done", "raised"}

\* the clock moves while a session runs; time 0 is when the session reads the
\* clock for its deadline
TickClock ==
    /\ Running
    /\ pc # "start"
    /\ now < MaxTime
    /\ now' = now + Tick
    /\ UNCHANGED <<prog, pc, start_url, global_deadline, questions, q, url, submit_url, h, ran,
                   answer, results, browser, overall_deadline, attempt, last_result, net,
                   posts, door, disk, html>>

\* line 273: while time.time() < global_deadline; lines 339-341 when it fails
MWhile ==
    /\ prog = "main" /\ pc = "while"
    /\ IF SessionOpen(now, global_deadline)
       THEN /\ pc' = "select"
            /\ ran' = <<>>
            /\ UNCHANGED <<browser, q, url, submit_url, h, answer>>
       ELSE /\ EndSession("done")
            /\ browser' = "closed"
    /\ net' = NoNet
    /\ Fixed /\ RUnchanged
    /\ UNCHANGED <<now, questions, results, posts>>

\* lines 274-276: q = manager.next_unsolved(); break when there is none
MSelect ==
    /\ prog = "main" /\ pc = "select"
    /\ LET next == next_unsolved(questions, now)
       IN IF next = 0
          THEN /\ EndSession("done")
               /\ browser' = "closed"
          ELSE /\ q' = next
               /\ pc' = "check"
               /\ UNCHANGED <<browser, url, submit_url, h, ran, answer>>
    /\ net' = NoNet
    /\ Fixed /\ RUnchanged
    /\ UNCHANGED <<now, questions, results, posts>>

\* lines 278-283: a window found expired is marked solved, else url = q["url"]
MCheck ==
    /\ prog = "main" /\ pc = "check"
    /\ IF Expired(now, questions[q])
       THEN /\ questions' = MarkSolved(questions, q)
            /\ EndTurn
       ELSE /\ questions' = questions
            /\ pc' = "goto"
            /\ url' = questions[q].url
            /\ UNCHANGED <<q, submit_url, h, ran, answer>>
    /\ net' = NoNet
    /\ Fixed /\ RUnchanged
    /\ UNCHANGED <<now, results, browser, posts>>

\* line 287: page.goto(url) is issued
MGoto ==
    /\ prog = "main" /\ pc = "goto"
    /\ net' = NetOp("goto", q, url, now)
    /\ pc' = "goto_wait"
    /\ Fixed /\ RUnchanged
    /\ UNCHANGED <<now, questions, q, url, submit_url, h, ran, answer, results, browser, posts>>

\* lines 287-289: the page is rendered
MGotoOk ==
    /\ prog = "main" /\ pc = "goto_wait"
    /\ pc' = "find"
    /\ net' = NoNet
    /\ Fixed /\ RUnchanged
    /\ UNCHANGED <<now, questions, q, url, submit_url, h, ran, answer, results, browser, posts>>

\* MGotoFail with break for continue
MGotoFail_Break ==
    /\ prog = "main" /\ pc = "goto_wait"
    /\ questions' = MarkSolved(questions, q)
    /\ EndSession("done")
    /\ browser' = "closed"
    /\ net' = NoNet
    /\ Fixed /\ RUnchanged
    /\ UNCHANGED <<now, results, posts>>

\* lines 290-292: rendering raised (navigation error or timeout)
MGotoFail ==
    /\ prog = "main" /\ pc = "goto_wait"
    /\ questions' = MarkSolved(questions, q)
    /\ EndTurn
    /\ net' = NoNet
    /\ Fixed /\ RUnchanged
    /\ UNCHANGED <<now, results, browser, posts>>

\* line 294: find_submit_url_from_html returns an endpoint; lines 300-301
MFindOk ==
    /\ prog = "main" /\ pc = "find"
    /\ submit_url' = "submit"
    /\ answer' = None
    /\ h' = 1
    /\ ran' = <<>>
    /\ pc' = "handlers"
    /\ net' = NoNet
    /\ Fixed /\ RUnchanged
    /\ UNCHANGED <<now, questions, q, url, results, browser, posts>>

\* lines 294-297: find_submit_url_from_html returns None
MFindNone ==
    /\ prog = "main" /\ pc = "find"
    /\ questions' = MarkSolved(questions, q)
    /\ EndTurn
    /\ net' = NoNet
    /\ Fixed /\ RUnchanged
    /\ UNCHANGED <<now, results, browser, posts>>

\* MFindRaise as if line 268 had no with block
MFindRaise_NoWith ==
    /\ prog = "main" /\ pc = "find"
    /\ EndSession("raised")
    /\ browser' = browser
    /\ net' = NoNet
    /\ Fixed /\ RUnchanged
    /\ UNCHANGED <<now, questions, results, posts>>

\* line 294 is in no try block: an exception of find_submit_url_from_html leaves
\* solve_quiz_url through the with block, browser.close() of line 339 is skipped
MFindRaise ==
    /\ prog = "main" /\ pc = "find"
    /\ EndSession("raised")
    /\ browser' = "torn_down"
    /\ net' = NoNet
    /\ Fixed /\ RUnchanged
    /\ UNCHANGED <<now, questions, results, posts>>

\* lines 302-314: one turn of the loop over HANDLERS, and what follows the loop
\* when this turn ends it
MHandler ==
    /\ prog = "main" /\ pc = "handlers"
    /\ \E o \in HandlerOutcomes(h) : \E dl \in Downloads(h, o) :
          /\ net' = IF dl THEN NetOp("download", q, url, now) ELSE NoNet
          /\ IF ~ChainStops(o) /\ h < Len(HANDLERS)
             THEN /\ h' = h + 1
                  /\ ran' = Append(ran, Called(h, o))
                  /\ UNCHANGED <<pc, answer, questions, q, url, submit_url>>
             ELSE IF ChainStops(o) /\ AnswerOf(h, o) # None
             THEN /\ answer' = AnswerOf(h, o)
                  /\ ran' = Append(ran, Called(h, o))
                  /\ pc' = "post"
                  /\ UNCHANGED <<h, questions, q, url, submit_url>>
             ELSE /\ questions' = MarkSolved(questions, q)
                  /\ ran' = Append(ran, Called(h, o))
                  /\ pc' = "while"
                  /\ q' = 0
                  /\ url' = NoUrl
                  /\ submit_url' = None
                  /\ h' = 1
                  /\ answer' = None
    /\ Fixed /\ RUnchanged
    /\ UNCHANGED <<now, results, browser, posts>>

\* line 324: post_answer(submit_url, payload) is issued
MPost ==
    /\ prog = "main" /\ pc = "post"
    /\ net' = NetOp("post", q, url, now)
    /\ posts' = Issued(posts, q)
    /\ pc' = "post_wait"
    /\ Fixed /\ RUnchanged
    /\ UNCHANGED <<now, questions, q, url, submit_url, h, ran, answer, results, browser>>

\* MPostFail without q["solved"] = True
MPostFail_Unmarked ==
    /\ prog = "main" /\ pc = "post_wait"
    /\ posts' = Returned(posts, q, "transport_error")
    /\ EndTurn
    /\ net' = NoNet
    /\ Fixed /\ RUnchanged
    /\ UNCHANGED <<now, questions, results, browser>>

\* lines 325-327: the POST raised
MPostFail ==
    /\ prog = "main" /\ pc = "post_wait"
    /\ questions' = MarkSolved(questions, q)
    /\ posts' = Returned(posts, q, "transport_error")
    /\ EndTurn
    /\ net' = NoNet
    /\ Fixed /\ RUnchanged
    /\ UNCHANGED <<now, results, browser>>

\* lines 324, 329-337: the judge answered with body
MPostReturn ==
    /\ prog = "main" /\ pc = "post_wait"
    /\ Len(results) < MaxResults
    /\ \E body \in JudgeBodies :
          /\ body.url # NoUrl => Len(questions) < MaxQuestions
          /\ LET resp == post_answer(body)
                 marked == IF SolvedByResponse(resp) THEN MarkSolved(questions, q)
                           ELSE questions
             IN /\ results' = Append(results, [question |-> url,
                                               sent |-> Payload(url, answer),
                                               response |-> resp])
                /\ IF AddsWindow(resp, url)
                   THEN /\ questions' = add(marked, resp.url, now)
                        /\ posts' = Append(Returned(posts, q, BodyClass(body)), <<>>)
                   ELSE /\ questions' = marked
                        /\ posts' = Returned(posts, q, BodyClass(body))
    /\ EndTurn
    /\ net' = NoNet
    /\ Fixed /\ RUnchanged
    /\ UNCHANGED <<now, browser>>

----------------------------------------------------------------------------
(* receive_request.py: process_request *)

NoResult == [kind |-> "None"]

\* lines 235-237: last_result for a body that is not JSON
FinalResult == [kind |-> "final"]

\* line 241: last_result = post_json
JsonResult(body) == [kind |-> "json", dict |-> body.dict, correct |-> body.correct,
                     url |-> body.url]

\* lines 244-246: next_url, NoUrl for None
NextUrl(body) == IF body.dict /\ body.url # NoUrl THEN body.url ELSE NoUrl

\* lines 248-253: the chain goes on with next_url
ChainContinues(next_url, u) == next_url # NoUrl /\ next_url # u

\* DeadlineExceeded without the deadline
DeadlineExceeded_Never(t, deadline) == FALSE

\* line 191: the deadline test at the top of the loop
DeadlineExceeded(t, deadline) == t > deadline

\* RetryAfter with one attempt more
RetryAfter_OneMore(n) == n <= RETRIES + 1

\* line 159: another attempt follows this failed one
RetryAfter(n) == n <= RETRIES

\* line 160: asyncio.sleep(1.0 * attempt)
Backoff(n) == 1 * n

MUnchanged == UNCHANGED <<global_deadline, questions, q, h, ran, results, browser, door, disk, html>>

\* lines 176-187: the start url is validated, the deadline is set
RStart ==
    /\ prog = "receive" /\ pc = "start"
    /\ IF start_url \in URLS
       THEN /\ overall_deadline' = now + OVERALL_SECONDS
            /\ url' = start_url
            /\ pc' = "loop"
       ELSE /\ pc' = "done"
            /\ UNCHANGED <<overall_deadline, url>>
    /\ net' = NoNet
    /\ MUnchanged
    /\ UNCHANGED <<prog, start_url, now, submit_url, answer, attempt, last_result, posts>>

\* lines 191-196: the deadline test, then client.get(url) is issued
RLoop ==
    /\ prog = "receive" /\ pc = "loop"
    /\ IF DeadlineExceeded(now, overall_deadline)
       THEN pc' = "done" /\ net' = NoNet /\ posts' = posts
       ELSE pc' = "get_wait" /\ net' = NetOp("get", 0, url, now) /\ posts' = <<<<>>>>
    /\ MUnchanged
    /\ UNCHANGED <<prog, start_url, now, url, submit_url, answer, overall_deadline, attempt,
                   last_result>>

\* lines 197-199: the GET raised
RGetFail ==
    /\ prog = "receive" /\ pc = "get_wait"
    /\ pc' = "done"
    /\ net' = NoNet
    /\ MUnchanged
    /\ UNCHANGED <<prog, start_url, now, url, submit_url, answer, overall_deadline, attempt,
                   last_result, posts>>

\* lines 201-215: the page is decoded; it has a question and a submit url, or
\* lacks one of them
RGetOk ==
    /\ prog = "receive" /\ pc = "get_wait"
    /\ \E page \in {"no_question", "no_submit", "ok"} :
          IF page = "ok"
          THEN submit_url' = "submit" /\ attempt' = 1 /\ pc' = "llm"
          ELSE submit_url' = (IF page = "no_submit" THEN None ELSE submit_url)
               /\ attempt' = attempt /\ pc' = "done"
    /\ net' = NoNet
    /\ MUnchanged
    /\ UNCHANGED <<prog, start_url, now, url, answer, overall_deadline, last_result, posts>>

\* lines 117-120: one attempt of call_aipipe_for_answer is issued
RLlm ==
    /\ prog = "receive" /\ pc = "llm"
    /\ net' = NetOp("llm", 0, url, now)
    /\ pc' = "llm_wait"
    /\ MUnchanged
    /\ UNCHANGED <<prog, start_url, now, url, submit_url, answer, overall_deadline, attempt,
                   last_result, posts>>

\* lines 121-152, 219: the attempt yields an answer, possibly a JSON null
RLlmOk ==
    /\ prog = "receive" /\ pc = "llm_wait"
    /\ answer' \in {"llm", None}
    /\ pc' = "post"
    /\ net' = NoNet
    /\ MUnchanged
    /\ UNCHANGED <<prog, start_url, now, url, submit_url, overall_deadline, attempt,
                   last_result, posts>>

\* lines 156-164, 220-222: the attempt failed; back off and try again, or raise
\* the last error, on which process_request breaks
RLlmFail ==
    /\ prog = "receive" /\ pc = "llm_wait"
    /\ IF RetryAfter(attempt)
       THEN /\ now' = now + Backoff(attempt)
            /\ attempt' = attempt + 1
            /\ pc' = "llm"
       ELSE /\ pc' = "done"
            /\ UNCHANGED <<now, attempt>>
    /\ net' = NoNet
    /\ MUnchanged
    /\ UNCHANGED <<prog, start_url, url, submit_url, answer, overall_deadline, last_result, posts>>

\* lines 224-226: client.post(submit_url, json=payload) is issued
RPost ==
    /\ prog = "receive" /\ pc = "post"
    /\ net' = NetOp("post", 0, url, now)
    /\ posts' = Issued(posts, 1)
    /\ pc' = "post_wait"
    /\ MUnchanged
    /\ UNCHANGED <<prog, start_url, now, url, submit_url, answer, overall_deadline, attempt,
                   last_result>>

\* lines 227-229: the POST raised
RPostFail ==
    /\ prog = "receive" /\ pc = "post_wait"
    /\ pc' = "done"
    /\ posts' = Returned(posts, 1, "transport_error")
    /\ net' = NoNet
    /\ MUnchanged
    /\ UNCHANGED <<prog, start_url, now, url, submit_url, answer, overall_deadline, attempt,
                   last_result>>

\* lines 231-255: the judge answered with body
RPostReturn ==
    /\ prog = "receive" /\ pc = "post_wait"
    /\ \E body \in JudgeBodies :
          /\ posts' = Returned(posts, 1, BodyClass(body))
          /\ IF ~body.json
             THEN last_result' = FinalResult /\ pc' = "done" /\ url' = url
             ELSE /\ last_result' = JsonResult(body)
                  /\ IF ChainContinues(NextUrl(body), url)
                     THEN url' = NextUrl(body) /\ pc' = "loop"
                     ELSE url' = url /\ pc' = "done"
    /\ net' = NoNet
    /\ MUnchanged
    /\ UNCHANGED <<prog, start_url, now, submit_url, answer, overall_deadline, attempt>>

----------------------------------------------------------------------------
(* The sessions *)

\* solve_quiz_url after lines 261-271, or process_request when it is scheduled
Init ==
    /\ prog \in {"main", "receive"}
    /\ now = 0
    /\ start_url \in IF prog = "main" THEN {"http://quiz/a"} ELSE StartUrls
    /\ global_deadline = now + MAX_GLOBAL_SECONDS
    /\ questions = IF prog = "main" THEN add(<<>>, start_url, now) ELSE <<>>
    /\ posts = <<<<>>>>
    /\ q = 0
    /\ url = NoUrl
    /\ submit_url = None
    /\ h = 1
    /\ ran = <<>>
    /\ answer = None
    /\ results = <<>>
    /\ browser = IF prog = "main" THEN "open" ELSE "none"
    /\ pc = IF prog = "main" THEN "while" ELSE "start"
    /\ overall_deadline = 0
    /\ attempt = 1
    /\ last_result = NoResult
    /\ net = NoNet
    /\ data = Accepted(start_url)
    /\ secret_key = SECRET
    /\ response = 0
    /\ tasks = <<>>
    /\ NoDisk
    /\ html = <<>>

\* the steps of the program
Program ==
    \/ MWhile
    \/ MSelect
    \/ MCheck
    \/ MGoto
    \/ MGotoOk
    \/ MGotoFail
    \/ MFindOk
    \/ MFindNone
    \/ MFindRaise
    \/ MHandler
    \/ MPost
    \/ MPostFail
    \/ MPostReturn
    \/ RStart
    \/ RLoop
    \/ RGetFail
    \/ RGetOk
    \/ RLlm
    \/ RLlmOk
    \/ RLlmFail
    \/ RPost
    \/ RPostFail
    \/ RPostReturn

Next ==
    \/ TickClock
    \/ Program

Spec == Init /\ [][Next]_vars

\* the clock advances, and the program goes on: each call it waits for returns
\* or raises (page.goto, requests.get and requests.post have timeouts, the
\* httpx clients have timeout=60.0 or 30.0)
SpecLive == Spec /\ WF_vars(TickClock) /\ WF_vars(Program)

----------------------------------------------------------------------------
(* QuestionManager.next_unsolved alone, on any list of windows at any time *)

\* opening times of the windows, and clock values just before and at each of
\* their deadlines
NUStarts == {0, Tick, 2 * Tick}

NUTimes == {0} \cup {s + WINDOW_SECONDS - d : s \in NUStarts, d \in {0, 1}}

NUQuestions ==
    {[url |-> u, start |-> s, deadline |-> s + WINDOW_SECONDS, solved |-> b,
      answer |-> None, confidence |-> 0] : u \in URLS, s \in NUStarts, b \in BOOLEAN}

\* the lists of windows; next_unsolved sorts by itself, so any order is taken
NULists == UNION {[1..n -> NUQuestions] : n \in 0..MaxWindows}

InitNU ==
    /\ prog = "next_unsolved"
    /\ pc = "call"
    /\ questions \in NULists
    /\ now \in NUTimes
    /\ q = 0
    /\ start_url = NoUrl
    /\ global_deadline = 0
    /\ url = NoUrl
    /\ submit_url = None
    /\ h = 1
    /\ ran = <<>>
    /\ answer = None
    /\ results = <<>>
    /\ browser = "none"
    /\ overall_deadline = 0
    /\ attempt = 1
    /\ last_result = NoResult
    /\ net = NoNet
    /\ posts = <<>>
    /\ data = NoData
    /\ secret_key = SECRET
    /\ response = 0
    /\ tasks = <<>>
    /\ NoDisk
    /\ html = <<>>

\* lines 247-253: manager.next_unsolved() returns
NUCall ==
    /\ prog = "next_unsolved" /\ pc = "call"
    /\ q' = next_unsolved(questions, now)
    /\ pc' = "return"
    /\ UNCHANGED <<prog, now, start_url, global_deadline, questions, url, submit_url, h, ran,
                   answer, results, browser, overall_deadline, attempt, last_result, net,
                   posts, door, disk, html>>

NextNU == NUCall

SpecNU == InitNU /\ [][NextNU]_vars

----------------------------------------------------------------------------
(* The endpoints: solve_api of main.py and receive_request of receive_request.py *)

\* the requests: a body that is no JSON, a JSON value that is no object (a list,
\* null, a number...), or a JSON object whose url, email and secret are each
\* missing, the empty string, or a value
Requests ==
    {Request("not_json", Absent, Absent, Absent),
     Request("json_other", Absent, Absent, Absent)}
    \cup {Request("json_object", u, e, sec) :
             u \in {Absent, "", "http://quiz/a"}, e \in {Absent, "", EMAIL},
             sec \in {Absent, "", "wrong", SECRET}}

\* python's truth value of data.get(k)
Truthy(v) == v \notin {Absent, ""}

\* the variables of a session when there is none
NoSession ==
    /\ now = 0
    /\ start_url = NoUrl
    /\ global_deadline = 0
    /\ questions = <<>>
    /\ q = 0
    /\ url = NoUrl
    /\ submit_url = None
    /\ h = 1
    /\ ran = <<>>
    /\ answer = None
    /\ results = <<>>
    /\ browser = "none"
    /\ overall_deadline = 0
    /\ attempt = 1
    /\ last_result = NoResult
    /\ net = NoNet
    /\ posts = <<>>
    /\ html = <<>>

SessionUnchanged ==
    UNCHANGED <<now, start_url, global_deadline, questions, q, url, submit_url, h, ran,
                answer, results, browser, overall_deadline, attempt, last_result, net,
                posts, html>>

\* SECRET_KEY is os.getenv("SECRET_KEY"), None when the variable is not set;
\* EXPECTED_SECRET has a default
InitDoor ==
    /\ prog \in {"solve_api", "receive_request"}
    /\ pc = "request"
    /\ data \in Requests
    /\ secret_key \in IF prog = "receive_request" THEN {None, SECRET} ELSE {SECRET}
    /\ response = 0
    /\ tasks = <<>>
    /\ NoDisk
    /\ NoSession

\* receive_request lines 267-278: the status of the rejection, 0 when there is
\* none; data.get of a JSON value that is no object raises AttributeError, which
\* the framework answers with 500
ReceiveRejects(d, key) ==
    IF d.body = "not_json" THEN 400
    ELSE IF d.body # "json_object" THEN 500
    ELSE IF d.secret = Absent THEN 400
    ELSE IF d.secret # key THEN 403
    ELSE IF ~Truthy(d.url) \/ ~Truthy(d.email) THEN 400
    ELSE 0

\* solve_api lines 350-363
SolveRejects(d, key) ==
    IF d.body = "not_json" THEN 400
    ELSE IF d.body # "json_object" THEN 500
    ELSE IF ~Truthy(d.email) \/ ~Truthy(d.secret) \/ ~Truthy(d.url) THEN 400
    ELSE IF d.secret # key THEN 403
    ELSE 0

\* receive_request: rejects, or adds the background task and answers 200
receive_request ==
    /\ prog = "receive_request" /\ pc = "request"
    /\ LET status == ReceiveRejects(data, secret_key)
       IN IF status # 0
          THEN response' = status /\ tasks' = tasks
          ELSE response' = 200 /\ tasks' = Append(tasks, "process_request")
    /\ pc' = "responded"
    /\ UNCHANGED <<prog, data, secret_key>>
    /\ SessionUnchanged
    /\ UNCHANGED disk

\* the background task starts once the response is out
process_request ==
    /\ prog = "receive_request" /\ pc = "responded"
    /\ tasks # <<>>
    /\ pc' = "processing"
    /\ UNCHANGED <<prog, data, secret_key, response, tasks>>
    /\ SessionUnchanged
    /\ UNCHANGED disk

\* solve_api: rejects, or calls solve_quiz_url
solve_api ==
    /\ prog = "solve_api" /\ pc = "request"
    /\ LET status == SolveRejects(data, secret_key)
       IN IF status # 0
          THEN response' = status /\ tasks' = tasks /\ pc' = "responded"
          ELSE response' = 0 /\ tasks' = Append(tasks, "solve_quiz_url") /\ pc' = "solving"
    /\ UNCHANGED <<prog, data, secret_key>>
    /\ SessionUnchanged
    /\ UNCHANGED disk

\* solve_api lines 365-369: solve_quiz_url returned or raised
solve_api_return ==
    /\ prog = "solve_api" /\ pc = "solving"
    /\ response' \in {200, 500}
    /\ pc' = "responded"
    /\ UNCHANGED <<prog, data, secret_key, tasks>>
    /\ SessionUnchanged
    /\ UNCHANGED disk

NextDoor ==
    \/ receive_request
    \/ process_request
    \/ solve_api
    \/ solve_api_return

SpecDoor == InitDoor /\ [][NextDoor]_vars

----------------------------------------------------------------------------
(* Two sessions of main.py at a time, each downloading a linked document *)

Sessions == {1, 2}

\* links with one of the extensions of line 183
Links == {"http://quiz/a/data.csv", "http://quiz/b/data.csv", "http://quiz/b/sum.csv"}

\* os.path.basename(urlparse(url).path)
Basename(link) == IF link = "http://quiz/b/sum.csv" THEN "sum.csv" ELSE "data.csv"

\* download_file line 70: the local name of the download, the same directory
\* for every session
Fname(link) == "/tmp/llmquiz/" \o Basename(link)

Fnames == {Fname(link) : link \in Links}

\* the chunks that r.iter_content yields for the document at link
Document(link) == [k \in 1..MaxChunks |-> <<link, k>>]

InitDisk ==
    /\ prog = "download_and_parse_handler"
    /\ pc = "handlers"
    /\ files = [f \in Fnames |-> <<>>]
    /\ sess \in [Sessions -> [link : Links, pc : {"download"}, chunk : {1}, df : {<<>>}]]
    /\ data = NoData
    /\ secret_key = SECRET
    /\ response = 0
    /\ tasks = <<>>
    /\ NoSession

DiskUnchanged ==
    /\ UNCHANGED <<prog, pc>>
    /\ UNCHANGED door
    /\ SessionUnchanged

\* download_file lines 71-73: the GET succeeded and open(fname, "wb") truncates
\* the file
download_file_open(s) ==
    /\ prog = "download_and_parse_handler" /\ sess[s].pc = "download"
    /\ files' = [files EXCEPT ![Fname(sess[s].link)] = <<>>]
    /\ sess' = [sess EXCEPT ![s].pc = "write"]
    /\ DiskUnchanged

\* download_file lines 71-72: the GET raised, which line 210 catches
download_file_raise(s) ==
    /\ prog = "download_and_parse_handler" /\ sess[s].pc = "download"
    /\ sess' = [sess EXCEPT ![s].pc = "failed"]
    /\ UNCHANGED files
    /\ DiskUnchanged

\* download_file lines 74-76: one chunk is written; after the last the file is
\* closed and fname returned
download_file_write(s) ==
    /\ prog = "download_and_parse_handler" /\ sess[s].pc = "write"
    /\ files' = [files EXCEPT ![Fname(sess[s].link)] =
                    Append(@, Document(sess[s].link)[sess[s].chunk])]
    /\ sess' = [sess EXCEPT ![s].chunk = IF @ < MaxChunks THEN @ + 1 ELSE 1,
                            ![s].pc = IF sess[s].chunk < MaxChunks THEN "write" ELSE "parse"]
    /\ DiskUnchanged

\* lines 188-189: df = pd.read_csv(f)
read_csv(s) ==
    /\ prog = "download_and_parse_handler" /\ sess[s].pc = "parse"
    /\ sess' = [sess EXCEPT ![s].df = files[Fname(sess[s].link)], ![s].pc = "parsed"]
    /\ UNCHANGED files
    /\ DiskUnchanged

NextDisk ==
    \E s \in Sessions :
       \/ download_file_open(s)
       \/ download_file_raise(s)
       \/ download_file_write(s)
       \/ read_csv(s)

SpecDisk == InitDisk /\ [][NextDisk]_vars

----------------------------------------------------------------------------
(* The search for the submit url: find_submit_url_from_html of main.py and
   find_submit_url_in_html of receive_request.py, each alone on any markup *)

\* what the searches look at, in document order: forms with an action, JSON
\* fields "url": "...", and other places where a url or a path is written
Kinds == {"form", "json", "text"}

Absolutes == {"http://h/submit", "http://h/answer", "http://h/page"}

Texts == Absolutes \cup {"/submit", "/api", "api"}

Items == [kind : Kinds, text : Texts]

Markups == UNION {[1..n -> Items] : n \in 0..MaxItems}

BaseUrls == {"http://quiz/a", "http://quiz/d/a"}

\* t starts with http:// or https://
IsAbsolute(t) == t \in Absolutes

\* "submit" in t or "answer" in t
Suspicious(t) == t \in {"http://h/submit", "http://h/answer", "/submit"}

\* t contains /submit
HasSubmitPath(t) == t \in {"http://h/submit", "/submit"}

StartsWithSlash(t) == t \in {"/submit", "/api"}

\* scheme and host of a base url, and the base url up to its last slash
Origin(base) == "http://quiz"

Dir(base) == IF base = "http://quiz/d/a" THEN "http://quiz/d/" ELSE "http://quiz/"

\* urllib.parse.urljoin
urljoin(base, t) ==
    IF IsAbsolute(t) THEN t
    ELSE IF StartsWithSlash(t) THEN Origin(base) \o t
    ELSE Dir(base) \o t

\* the texts of a sequence of items
TextsOf(items) == [i \in DOMAIN items |-> items[i].text]

\* re.findall(r"https?://[^\s\"']+", html_text): the absolute urls written
\* anywhere in the markup, attribute values and JSON values included
FindAll(markup) == SelectSeq(TextsOf(markup), IsAbsolute)

\* find_submit_url_from_html returning urls[0] ahead of the loop over urls
find_submit_url_from_html_FirstUrl(markup, base) ==
    LET form == SelectSeq(markup, LAMBDA it : it.kind = "form")
        urls == FindAll(markup)
    IN IF form # <<>> THEN urljoin(base, Head(form).text)
       ELSE IF urls # <<>> THEN Head(urls)
       ELSE None

\* main.py lines 42-56
find_submit_url_from_html(markup, base) ==
    LET form == SelectSeq(markup, LAMBDA it : it.kind = "form")
        urls == FindAll(markup)
        suspicious == SelectSeq(urls, Suspicious)
    IN IF form # <<>> THEN urljoin(base, Head(form).text)
       ELSE IF suspicious # <<>> THEN urljoin(base, Head(suspicious))
       ELSE IF urls # <<>> THEN Head(urls)
       ELSE None

\* receive_request.py lines 60-77
find_submit_url_in_html(markup, base) ==
    LET m == SelectSeq(TextsOf(markup), LAMBDA t : IsAbsolute(t) /\ HasSubmitPath(t))
        m2 == TextsOf(SelectSeq(markup, LAMBDA it : it.kind = "json"))
        m3 == SelectSeq(TextsOf(markup), HasSubmitPath)
    IN IF m # <<>> THEN Head(m)
       ELSE IF m2 # <<>>
       THEN LET candidate == Head(m2)
            IN IF IsAbsolute(candidate) THEN candidate
               ELSE urljoin(base, IF StartsWithSlash(candidate) THEN candidate
                                  ELSE "/" \o candidate)
       ELSE IF m3 # <<>> THEN urljoin(base, Head(m3))
       ELSE None

InitFind ==
    /\ prog \in {"find_submit_url_from_html", "find_submit_url_in_html"}
    /\ pc = "call"
    /\ data = NoData
    /\ secret_key = SECRET
    /\ response = 0
    /\ tasks = <<>>
    /\ NoDisk
    /\ now = 0
    /\ start_url = NoUrl
    /\ global_deadline = 0
    /\ questions = <<>>
    /\ q = 0
    /\ url \in BaseUrls
    /\ submit_url = None
    /\ h = 1
    /\ ran = <<>>
    /\ answer = None
    /\ results = <<>>
    /\ browser = "none"
    /\ overall_deadline = 0
    /\ attempt = 1
    /\ last_result = NoResult
    /\ net = NoNet
    /\ posts = <<>>
    /\ html \in Markups

\* main.py line 294, receive_request.py line 211
FindCall ==
    /\ pc = "call"
    /\ prog \in {"find_submit_url_from_html", "find_submit_url_in_html"}
    /\ submit_url' = IF prog = "find_submit_url_from_html"
                     THEN find_submit_url_from_html(html, url)
                     ELSE find_submit_url_in_html(html, url)
    /\ pc' = "return"
    /\ UNCHANGED <<prog, now, start_url, global_deadline, questions, q, url, h, ran, answer,
                   results, browser, overall_deadline, attempt, last_result, net, posts,
                   door, disk, html>>

NextFind == FindCall

SpecFind == InitFind /\ [][NextFind]_vars

----------------------------------------------------------------------------
(* Properties *)

Last(s) == s[Len(s)]

SessionDeadline == IF prog = "main" THEN global_deadline ELSE overall_deadline

\* a step of solve_quiz_url in which the judge's answer to the POST arrives
MJudged == prog = "main" /\ pc = "post_wait" /\ Len(results') > Len(results)

\* a step of process_request in which the judge's answer to the POST arrives
RJudged ==
    /\ prog = "receive" /\ pc = "post_wait" /\ pc' # "post_wait"
    /\ Last(posts'[1]) # "transport_error"

\* C1: no network operation (page fetch, download, completion call, POST) is
\* initiated later than the session deadline.
C1_NoOperationAfterDeadline == net.kind # "none" => net.at <= SessionDeadline

\* C2, as claimed: a window gets at most one POST, and a window whose POST was
\* answered by a JSON object with neither correct == true nor a url is solved.
C2_OneShotSubmission ==
    \A i \in DOMAIN posts :
       /\ Len(posts[i]) <= 1
       /\ \A k \in DOMAIN posts[i] :
             (prog = "main" /\ posts[i][k] = "neither") => questions[i].solved

\* C2, amended: after a JSON answer with neither correct == true nor a url,
\* process_request ends the chain and has posted once for the challenge, while
\* solve_quiz_url leaves the window as it is, unsolved, to be selected and
\* submitted again; solve_quiz_url issues a POST only for a window that is not
\* solved.
C2_ResubmittedUntilSolved ==
    [][/\ (MJudged /\ Last(posts'[q]) = "neither") => questions' = questions
       /\ \A i \in DOMAIN posts :
             (prog = "main" /\ Len(posts'[i]) > Len(posts[i])) => ~questions[i].solved
       /\ (RJudged /\ Last(posts'[1]) = "neither") => pc' = "done"
       /\ prog = "receive" => Len(posts'[1]) <= 1]_vars

\* a window answered with neither is submitted a second time
C2_Witness ==
    /\ prog = "main"
    /\ \E i \in DOMAIN posts : Len(posts[i]) >= 2 /\ posts[i][1] = "neither"

\* C3: an answer whose url is the url of the challenge just submitted creates
\* no window (main.py) and does not continue the chain (receive_request.py).
C3_LoopGuard ==
    [][/\ (MJudged /\ Last(results').response.url = url)
             => Len(questions') = Len(questions)
       /\ (RJudged /\ last_result'.kind = "json" /\ last_result'.url = url)
             => (pc' = "done" /\ url' = url)]_vars

\* C4: a window whose POST was answered by a body that is not JSON is solved and
\* gets no further POST; process_request is over after such an answer.
C4_NonJsonTerminal ==
    \A i \in DOMAIN posts : \A k \in DOMAIN posts[i] :
       posts[i][k] = "text" =>
          /\ k = Len(posts[i])
          /\ prog = "main" => questions[i].solved
          /\ prog = "receive" => pc = "done"

\* C5: an answer that is a JSON object with a non-empty url X other than the
\* submitted url adds an unsolved window for X (main.py) or makes X the next
\* challenge (receive_request.py), with or without correct == true.
C5_ChainContinues ==
    [][/\ (MJudged /\ Last(results').response.dict
                   /\ Last(results').response.url \notin {NoUrl, url})
             => /\ Len(questions') = Len(questions) + 1
                /\ Last(questions').url = Last(results').response.url
                /\ ~Last(questions').solved
                /\ Last(questions').deadline = now + WINDOW_SECONDS
       /\ (RJudged /\ last_result'.kind = "json" /\ last_result'.dict
                   /\ last_result'.url \notin {NoUrl, url})
             => (url' = last_result'.url /\ pc' = "loop")]_vars

\* an answer with correct == true and a follow-on url: the window is solved and
\* the follow-on window is there
C5_Witness ==
    /\ prog = "main" /\ results # <<>>
    /\ Last(results).response.correct
    /\ Last(results).response.url \notin {NoUrl, Last(results).question}
    /\ Len(questions) = 2
    /\ questions[1].solved
    /\ questions[2].url = Last(results).response.url

\* C6: a solved window stays solved, next_unsolved never returns it, and no
\* page fetch, download or POST is issued for it.
C6_SolvedIsFinal ==
    [][/\ \A i \in DOMAIN questions : questions[i].solved => questions'[i].solved
       /\ (prog = "main" /\ pc = "select" /\ pc' = "check") => ~questions[q'].solved
       /\ (prog = "main" /\ net' # net /\ net'.kind # "none")
             => ~questions[net'.q].solved]_vars

\* a page is fetched for one window while another window is solved
C6_Witness ==
    /\ prog = "main" /\ net.kind = "goto"
    /\ \E i \in DOMAIN questions : i # net.q /\ questions[i].solved

\* C7: next_unsolved never returns a window whose deadline is at or before the
\* time it reads, and a selected window found past its deadline is marked solved
\* and the turn ends with no fetch, download or POST.
C7_ExpiredNeverServiced ==
    [][/\ (prog = "main" /\ pc = "select" /\ pc' = "check") => now < questions[q'].deadline
       /\ (prog = "main" /\ pc = "check" /\ now' = now /\ now >= questions[q].deadline)
             => /\ questions' = MarkSolved(questions, q)
                /\ pc' = "while"
                /\ net'.kind = "none"
                /\ posts' = posts
                /\ results' = results]_vars

\* the selected window is past its deadline when line 279 tests it
C7_Witness == prog = "main" /\ pc = "check" /\ now >= questions[q].deadline

\* C8: next_unsolved returns an unsolved, unexpired window of minimal deadline
\* among the unsolved unexpired ones, and None exactly when there is none.
C8_EarliestDeadlineFirst ==
    (prog = "next_unsolved" /\ pc = "return") =>
       LET sel == {i \in DOMAIN questions :
                      ~questions[i].solved /\ now < questions[i].deadline}
       IN /\ q = 0 <=> sel = {}
          /\ q # 0 => /\ q \in sel
                      /\ \A j \in sel : questions[q].deadline <= questions[j].deadline

\* the window returned is listed after a selectable window of later deadline,
\* and the list also holds an unsolved window that is expired
C8_Witness ==
    /\ prog = "next_unsolved" /\ pc = "return" /\ q > 1
    /\ \E j \in 1..(q - 1) :
          /\ ~questions[j].solved /\ now < questions[j].deadline
          /\ questions[j].deadline > questions[q].deadline
    /\ \E j \in DOMAIN questions : ~questions[j].solved /\ now >= questions[j].deadline

\* C9: a page-fetch failure, a missing submit url or a handler chain without an
\* answer marks only the current window solved, changes no other window, adds
\* no window and no history entry, and the loop goes on: solve_quiz_url returns
\* only when the session deadline has elapsed or no window is unsolved and
\* unexpired.  In process_request, which has no other window, such a failure
\* ends the chain leaving url and last_result as they were, without a POST.
C9_FailureIsLocal ==
    [][/\ (prog = "main" /\ pc \in {"goto_wait", "find", "handlers"} /\ pc' = "while")
             => /\ questions' = MarkSolved(questions, q)
                /\ results' = results
                /\ posts' = posts
                /\ browser' = browser
       /\ (prog = "main" /\ pc # "done" /\ pc' = "done")
             => \/ pc = "while" /\ now >= global_deadline
                \/ /\ pc = "select"
                   /\ \A i \in DOMAIN questions :
                         questions[i].solved \/ now >= questions[i].deadline
       /\ (prog = "receive" /\ pc \in {"get_wait", "llm_wait"} /\ pc' = "done")
             => (last_result' = last_result /\ url' = url /\ posts' = posts)]_vars

\* the first window was given up on a failure before its deadline, after an
\* answer that added a second window, and the second window is selected
C9_Witness ==
    /\ prog = "main" /\ pc = "check" /\ q = 2
    /\ questions[1].solved /\ now < questions[1].deadline
    /\ posts[1] = <<"url">>

\* C10: a window whose POST raised is solved and gets no further POST;
\* process_request is over after such a POST.
C10_TransportErrorAbandons ==
    \A i \in DOMAIN posts : \A k \in DOMAIN posts[i] :
       posts[i][k] = "transport_error" =>
          /\ k = Len(posts[i])
          /\ prog = "main" => questions[i].solved
          /\ prog = "receive" => pc = "done"

\* the POST of one window raised and a POST for another window is in flight
C10_Witness ==
    /\ prog = "main"
    /\ \E i \in DOMAIN posts : \E j \in DOMAIN posts :
          /\ i # j
          /\ posts[i] # <<>> /\ Last(posts[i]) = "transport_error"
          /\ posts[j] # <<>> /\ Last(posts[j]) = "pending"

\* C11: the handlers are called in the order of HANDLERS; a handler is called
\* only when every handler before it returned None or raised, so a handler that
\* raises is followed by the next one and a handler that returns a result by
\* none; the answer that is posted is the one of that result.
C11_HandlerChainOrder ==
    prog = "main" =>
       /\ \A k \in DOMAIN ran : ran[k].handler = HANDLERS[k]
       /\ \A k \in 1..(Len(ran) - 1) : ran[k].out \in {"none", "raise"}
       /\ pc = "handlers" => h = Len(ran) + 1
       /\ pc \in {"post", "post_wait"} =>
             /\ ran # <<>>
             /\ Last(ran).out = "value"
             /\ answer = AnswerOf(Len(ran), Last(ran).out)
             /\ answer # None

\* the third handler's answer is about to be posted after the second handler raised
C11_Witness ==
    /\ prog = "main" /\ pc = "post"
    /\ Len(ran) = 3 /\ ran[2].out = "raise"
    /\ ran[3] = Called(3, "value")
    /\ answer # None

\* C12: call_aipipe_for_answer starts with attempt 1 and makes no attempt
\* after attempt RETRIES + 1; an attempt that yields an answer is the last one
\* and the POST is next; the failed attempt k <= RETRIES is followed by a wait of
\* k seconds and attempt k + 1; the failed attempt RETRIES + 1 is followed by
\* no wait, and process_request ends without a POST.
C12_RetryBackoff ==
    [][prog = "receive" =>
          /\ (pc = "get_wait" /\ pc' = "llm") => attempt' = 1
          /\ (pc = "llm" /\ pc' = "llm_wait") => attempt <= RETRIES + 1
          /\ (pc = "llm_wait" /\ pc' = "post") => (attempt' = attempt /\ now' = now)
          /\ (pc = "llm_wait" /\ pc' = "llm")
                => /\ attempt <= RETRIES
                   /\ attempt' = attempt + 1
                   /\ now' = now + attempt
          /\ (pc = "llm_wait" /\ pc' = "done")
                => /\ attempt = RETRIES + 1
                   /\ now' = now
                   /\ posts' = posts
                   /\ last_result' = last_result]_vars

\* the third attempt of the first challenge failed after waits of 1 and 2
\* seconds, and process_request is over without a POST
C12_Witness ==
    /\ prog = "receive" /\ pc = "done"
    /\ attempt = RETRIES + 1 /\ now = 3
    /\ posts = <<<<>>>> /\ submit_url # None

\* C13: once the endpoint has acted, the engine was handed the request exactly
\* when url, email and secret are there and secret is the pre-shared value; any
\* other request is answered 400 or 403; receive_request has answered 200 to a
\* request it took while the background task has yet to start.
C13_FrontDoorGate ==
    (prog \in {"solve_api", "receive_request"} /\ pc # "request") =>
       LET valid == /\ data.body = "json_object"
                    /\ Truthy(data.url) /\ Truthy(data.email) /\ Truthy(data.secret)
                    /\ data.secret = secret_key
       IN /\ tasks # <<>> <=> valid
          /\ Len(tasks) <= 1
          /\ ~valid => response \in {400, 403}
          /\ (valid /\ prog = "receive_request" /\ pc = "responded") => response = 200

\* C14: no session reads or overwrites a downloaded file of another session:
\* while a session writes or is about to parse its download, the file holds
\* what this session wrote of its document, and what the session parses is its
\* own document.
C14_SessionIsolation ==
    prog = "download_and_parse_handler" =>
       \A s \in Sessions :
          /\ sess[s].pc = "parse" => files[Fname(sess[s].link)] = Document(sess[s].link)
          /\ sess[s].pc = "write" =>
                files[Fname(sess[s].link)]
                   = SubSeq(Document(sess[s].link), 1, sess[s].chunk - 1)
          /\ sess[s].pc = "parsed" => sess[s].df = Document(sess[s].link)

\* C15: the manager of a session holds at most one window per url.
C15_OneWindowPerUrl ==
    prog = "main" =>
       \A i \in DOMAIN questions : \A j \in DOMAIN questions :
          questions[i].url = questions[j].url => i = j

\* the submissions of solve_quiz_url whose POST has come out, as pairs of a
\* window and the position of the POST among those of the window
SubmissionsMade ==
    UNION {{<<i, k>> : k \in {n \in DOMAIN posts[i] : posts[i][n] # "pending"}} :
              i \in DOMAIN posts}

\* C16: results has one entry per submission made, a submission whose POST
\* raised included, each entry for the url that was submitted.
C16_CompleteHistory ==
    prog = "main" =>
       /\ Len(results) = Cardinality(SubmissionsMade)
       /\ \A k \in DOMAIN results :
             \E i \in DOMAIN questions : questions[i].url = results[k].question

\* C17: the browser is open as long as solve_quiz_url runs, and when it has
\* returned or an exception has left it, the browser is released: closed by
\* browser.close(), or torn down with playwright by the with block.
C17_BrowserReleased ==
    prog = "main" =>
       /\ pc \in {"done", "raised"} => browser \in {"closed", "torn_down"}
       /\ pc \notin {"done", "raised"} => browser = "open"

\* an exception of the submit-url discovery left solve_quiz_url in a turn after
\* a submission
C17_Witness ==
    /\ prog = "main" /\ pc = "raised"
    /\ browser = "torn_down"
    /\ results # <<>>

\* the least element of a non-empty set of positions
First(S) == CHOOSE i \in S : \A j \in S : i <= j

\* the positions of the markup whose item satisfies Test
Where(markup, Test(_)) == {i \in DOMAIN markup : Test(markup[i])}

\* a JSON url field resolved: absolute as it is, else joined as a root-relative path
Resolved(base, t) ==
    IF IsAbsolute(t) THEN t
    ELSE Origin(base) \o (IF StartsWithSlash(t) THEN t ELSE "/" \o t)

\* C18, as claimed: both searches return the first available of (a) the action
\* of a form resolved against the page url, (b) an absolute url containing
\* "submit" or "answer", (c) a JSON "url" field resolved, (d) any absolute url,
\* and None only when there is none of these.
C18_ClaimedPriority ==
    pc = "return" /\ prog \in {"find_submit_url_from_html", "find_submit_url_in_html"} =>
       LET a == Where(html, LAMBDA it : it.kind = "form")
           b == Where(html, LAMBDA it : IsAbsolute(it.text) /\ Suspicious(it.text))
           c == Where(html, LAMBDA it : it.kind = "json")
           d == Where(html, LAMBDA it : IsAbsolute(it.text))
       IN submit_url =
             IF a # {} THEN urljoin(url, html[First(a)].text)
             ELSE IF b # {} THEN html[First(b)].text
             ELSE IF c # {} THEN Resolved(url, html[First(c)].text)
             ELSE IF d # {} THEN html[First(d)].text
             ELSE None

\* C18, amended: find_submit_url_from_html returns the first available of (a),
\* (b) and (d), a JSON "url" field counting only as the absolute url it may
\* hold; find_submit_url_in_html returns the first available of an absolute url
\* containing "/submit", (c), and a path starting with "/submit" joined to the
\* page url, and looks at no form action and no other absolute url.  Each
\* returns None exactly when it has none of its three.
C18_PriorityPerSearch ==
    /\ (pc = "return" /\ prog = "find_submit_url_from_html") =>
          LET a == Where(html, LAMBDA it : it.kind = "form")
              b == Where(html, LAMBDA it : IsAbsolute(it.text) /\ Suspicious(it.text))
              d == Where(html, LAMBDA it : IsAbsolute(it.text))
          IN /\ a # {} => submit_url = urljoin(url, html[First(a)].text)
             /\ (a = {} /\ b # {}) => submit_url = html[First(b)].text
             /\ (a = {} /\ b = {} /\ d # {}) => submit_url = html[First(d)].text
             /\ submit_url = None <=> (a = {} /\ d = {})
    /\ (pc = "return" /\ prog = "find_submit_url_in_html") =>
          LET s == Where(html, LAMBDA it : IsAbsolute(it.text) /\ HasSubmitPath(it.text))
              c == Where(html, LAMBDA it : it.kind = "json")
              p == Where(html, LAMBDA it : HasSubmitPath(it.text))
          IN /\ s # {} => submit_url = html[First(s)].text
             /\ (s = {} /\ c # {}) => submit_url = Resolved(url, html[First(c)].text)
             /\ (s = {} /\ c = {} /\ p # {}) => submit_url = Origin(url) \o html[First(p)].text
             /\ submit_url = None <=> (c = {} /\ p = {})

\* find_submit_url_from_html passed over a JSON "url" field that is a path and
\* returned an absolute url written after it that has neither "submit" nor
\* "answer"
C18_Witness ==
    /\ prog = "find_submit_url_from_html" /\ pc = "return"
    /\ Len(html) = 2
    /\ html[1] = [kind |-> "json", text |-> "/api"]
    /\ html[2] = [kind |-> "text", text |-> "http://h/page"]
    /\ submit_url = "http://h/page"

C20_ProtocolOrder ==
    [][(prog = "main" \/ prog = "receive") =>
          /\ (pc' = "post_wait" /\ pc # "post_wait")
                => /\ pc = "post"
                   /\ submit_url # None
                   /\ answer # None
                   /\ net'.kind = "post" /\ net'.url = url
                   /\ prog = "main" => url = questions[q].url
          /\ (pc' = "post" /\ pc # "post") => pc \in {"handlers", "llm_wait"}
          /\ (pc' = "handlers" /\ pc # "handlers") => (pc = "find" /\ submit_url' # None)
          /\ (pc' = "find" /\ pc # "find") => pc = "goto_wait"
          /\ (pc' = "llm" /\ pc # "llm")
                => (pc \in {"get_wait", "llm_wait"} /\ submit_url' # None)
          /\ pc \in {"goto_wait", "find", "handlers", "get_wait", "llm", "llm_wait", "post"}
                => (url' = url \/ pc' \in {"while", "done", "raised", "loop"})]_vars

\* C21: when the first handler that returns a result returns one whose answer
\* is None, the loop over HANDLERS ends there with the later handlers not
\* called, the window is marked solved and the turn ends with no POST and no
\* history entry; the window gets no POST later either.
C21_NullShortCircuits ==
    [][(prog = "main" /\ pc = "handlers" /\ ran' = Append(ran, Called(h, "null")))
          => /\ \A k \in DOMAIN ran : ran[k].out \in {"none", "raise"}
             /\ Len(ran') < Len(HANDLERS)
             /\ pc' = "while"
             /\ questions' = MarkSolved(questions, q)
             /\ posts' = posts
             /\ posts[q] = <<>> \/ Last(posts[q]) # "pending"
             /\ results' = results
             /\ net'.kind # "post"]_vars

\* the first handler returned a result whose answer is None for the second
\* window: the turn is over, the window is solved and has no POST
C21_Witness ==
    /\ prog = "main" /\ pc = "while"
    /\ ran = <<Called(1, "null")>>
    /\ Len(questions) = 2 /\ questions[2].solved
    /\ posts[2] = <<>>

====
